---- MODULE Spec2Model ----
(***************************************************************************)
(* A model of scandir.py: the scandir() directory iterator (POSIX, Win32   *)
(* and fallback branches), the DirEntry value with its lazily cached       *)
(* lstat(), and the recursive walk() generator built on them.              *)
(*                                                                         *)
(* Paths are sequences of names (the root is << >>), join() appends one    *)
(* component.  A file system is a function from the existing paths to the  *)
(* kind of object found there.                                             *)
(***************************************************************************)
EXTENDS Integers, Sequences, FiniteSets, TLC

(***************************************************************************)
(* Bounds of the model.                                                    *)
(***************************************************************************)
\* number of objects below the root of a file system
MaxNodes == 2
\* number of DirEntry method calls made by the consumer of one scan
MaxCalls == 3
\* number of times the file system is changed behind the program's back
MaxMutations == 1
\* number of subdirectory-name lists the consumer of a walk edits
MaxEdits == 1
\* length of the longest path walk() is followed into
MaxWalkDepth == 3

(***************************************************************************)
(* Constants of the program.                                               *)
(***************************************************************************)
S_IFDIR == 16384
S_IFREG == 32768
S_IFLNK == 40960
\* the literal 0o170000 of the is* methods
S_IFMT == 61440

FILE_ATTRIBUTE_READONLY == 1
FILE_ATTRIBUTE_DIRECTORY == 16
FILE_ATTRIBUTE_REPARSE_POINT == 1024

DT_UNKNOWN == 0
DT_DIR == 4
DT_REG == 8
DT_LNK == 10

\* Python's None, for DirEntry._lstat and DirEntry.dirent
None == -1

(***************************************************************************)
(* Python's integer operators & and |.                                     *)
(***************************************************************************)
RECURSIVE BitAnd(_, _)
BitAnd(a, b) ==
    IF a = 0 \/ b = 0 THEN 0
    ELSE 2 * BitAnd(a \div 2, b \div 2) + (IF a % 2 = 1 /\ b % 2 = 1 THEN 1 ELSE 0)

RECURSIVE BitOr(_, _)
BitOr(a, b) ==
    IF a = 0 THEN b
    ELSE IF b = 0 THEN a
    ELSE 2 * BitOr(a \div 2, b \div 2) + (IF a % 2 = 1 \/ b % 2 = 1 THEN 1 ELSE 0)

(***************************************************************************)
(* The environment: names, paths and file systems.                         *)
(***************************************************************************)
NameSeq == <<"a", "b">>
Names == {NameSeq[i] : i \in 1..Len(NameSeq)}
Dots == {".", ".."}
Root == << >>

\* "dir": a readable directory; "noperm": a directory that cannot be opened;
\* "ioerr": a directory whose reads may fail; "file": a regular file;
\* "link": a symbolic link to the root directory.
Kinds == {"dir", "noperm", "ioerr", "file", "link"}
DirKinds == {"dir", "noperm", "ioerr"}

join(top, name) == Append(top, name)

KindAt(fs, p) == IF p \in DOMAIN fs THEN fs[p] ELSE "none"

\* The path with its symbolic links followed, as the kernel does for every
\* component of a path handed to opendir() or FindFirstFile().
RECURSIVE Resolve(_, _)
Resolve(fs, p) ==
    IF p = << >> THEN << >>
    ELSE LET parent == Resolve(fs, SubSeq(p, 1, Len(p) - 1))
             full == Append(parent, p[Len(p)])
         IN IF KindAt(fs, full) = "link" THEN Root ELSE full

\* The names of the children of directory p, in the order of NameSeq.
RECURSIVE ChildrenFrom(_, _, _)
ChildrenFrom(fs, p, i) ==
    IF i > Len(NameSeq) THEN << >>
    ELSE (IF join(p, NameSeq[i]) \in DOMAIN fs THEN <<NameSeq[i]>> ELSE << >>)
         \o ChildrenFrom(fs, p, i + 1)

Reverse(s) == [i \in 1..Len(s) |-> s[Len(s) + 1 - i]]

\* File systems with at most n objects below the root.
Grow(fs) ==
    {fs @@ (join(p, nm) :> k) :
        p \in {q \in DOMAIN fs : fs[q] \in {"dir", "ioerr"}},
        nm \in Names, k \in Kinds} \ {fs}

RECURSIVE TreesUpTo(_)
TreesUpTo(n) ==
    IF n = 0 THEN {(Root :> k) : k \in DirKinds}
    ELSE LET S == TreesUpTo(n - 1) IN S \cup UNION {Grow(fs) : fs \in S}


(***************************************************************************)
(* What the operating system reports about one object.                     *)
(***************************************************************************)
\* st_mode of os.lstat(): the type bits and the permission bits
ModeOf(kind) ==
    CASE kind = "dir" -> S_IFDIR + 493
      [] kind = "ioerr" -> S_IFDIR + 493
      [] kind = "noperm" -> S_IFDIR
      [] kind = "file" -> S_IFREG + 420
      [] kind = "link" -> S_IFLNK + 511

\* d_type of a dirent filled by readdir_r()
DTypeOf(kind) ==
    CASE kind \in DirKinds -> DT_DIR
      [] kind = "file" -> DT_REG
      [] kind = "link" -> DT_LNK

\* dwFileAttributes of a WIN32_FIND_DATAW; a link is a directory symlink
AttrsOf(kind) ==
    CASE kind \in DirKinds -> FILE_ATTRIBUTE_DIRECTORY
      [] kind = "file" -> FILE_ATTRIBUTE_READONLY
      [] kind = "link" -> FILE_ATTRIBUTE_DIRECTORY + FILE_ATTRIBUTE_REPARSE_POINT

\* os.lstat(join(path, name)): the links of path are followed, the last
\* component is not.  The result is None when the call raises OSError.
NativeLstat(fs, path, name) ==
    LET k == KindAt(fs, join(Resolve(fs, path), name))
    IN IF k = "none" THEN None ELSE ModeOf(k)

\* What a reference listing (os.listdir) of directory p returns.
RefListing(fs, p) ==
    {nm \in Names : join(Resolve(fs, p), nm) \in DOMAIN fs}

\* The raw records the native enumeration of directory p hands out, the
\* pseudo-entries included: before the children, or after the first child.
\* A Win32 drive root and os.listdir() have no pseudo-entries.
RawStream(fs, p, plat, dotsFirst, rev) ==
    LET d == Resolve(fs, p)
        ch == IF rev THEN Reverse(ChildrenFrom(fs, d, 1)) ELSE ChildrenFrom(fs, d, 1)
        recs == [i \in 1..Len(ch) |-> [name |-> ch[i], kind |-> fs[join(d, ch[i])]]]
        dots == <<[name |-> ".", kind |-> "dir"], [name |-> "..", kind |-> "dir"]>>
    IN IF plat = "other" \/ (plat = "win32" /\ d = Root) THEN recs
       ELSE IF dotsFirst \/ recs = << >> THEN dots \o recs
       ELSE <<recs[1]>> \o dots \o Tail(recs)

(***************************************************************************)
(* DirEntry.  One record serves the three platform classes: d_type is the  *)
(* dirent's field (POSIX), attrs is _find_data.dwFileAttributes (Win32),   *)
(* lstat is the _lstat slot.  queries counts the os.lstat() calls made for *)
(* the entry.                                                              *)
(***************************************************************************)
DirEntry(plat, dtKnown, path, rec) ==
    [path |-> path, name |-> rec.name,
     d_type |-> IF plat = "posix" /\ dtKnown THEN DTypeOf(rec.kind) ELSE DT_UNKNOWN,
     attrs |-> IF plat = "win32" THEN AttrsOf(rec.kind) ELSE 0,
     lstat |-> None, queries |-> 0]

\* find_data_to_stat(): st_mode from dwFileAttributes
find_data_to_stat(attributes) ==
    LET m1 == IF BitAnd(attributes, FILE_ATTRIBUTE_DIRECTORY) # 0
              THEN BitOr(0, BitOr(S_IFDIR, 73))
              ELSE BitOr(0, S_IFREG)
        m2 == IF BitAnd(attributes, FILE_ATTRIBUTE_READONLY) # 0
              THEN BitOr(m1, 292)
              ELSE BitOr(m1, 438)
    IN IF BitAnd(attributes, FILE_ATTRIBUTE_REPARSE_POINT) # 0
       THEN BitOr(m2, S_IFLNK)
       ELSE m2

\* The result of a method call: the entry afterwards, the value returned
\* and whether the call raised OSError instead of returning.
Ret(e, v) == [e |-> e, val |-> v, raised |-> FALSE]
Raise(e) == [e |-> e, val |-> None, raised |-> TRUE]

\* PosixLstat without the test "self._lstat is None"
PosixLstatNoCache(e, fs) ==
    LET r == NativeLstat(fs, e.path, e.name)
        q == [e EXCEPT !.queries = @ + 1]
    IN IF r = None THEN Raise(q) ELSE Ret([q EXCEPT !.lstat = r], r)

\* PosixLstat that answers None when os.lstat() fails
PosixLstatSwallow(e, fs) ==
    IF e.lstat = None
    THEN LET r == NativeLstat(fs, e.path, e.name)
             q == [e EXCEPT !.queries = @ + 1]
         IN IF r = None THEN Ret(q, None) ELSE Ret([q EXCEPT !.lstat = r], r)
    ELSE Ret(e, e.lstat)

\* DirEntry.lstat() of the POSIX and fallback classes
PosixLstat(e, fs) ==
    IF e.lstat = None
    THEN LET r == NativeLstat(fs, e.path, e.name)
             q == [e EXCEPT !.queries = @ + 1]
         IN IF r = None THEN Raise(q) ELSE Ret([q EXCEPT !.lstat = r], r)
    ELSE Ret(e, e.lstat)

\* DirEntry.lstat() of the Win32 class
WinLstat(e) ==
    IF e.lstat = None
    THEN LET r == find_data_to_stat(e.attrs) IN Ret([e EXCEPT !.lstat = r], r)
    ELSE Ret(e, e.lstat)

Lstat(plat, e, fs) == IF plat = "win32" THEN WinLstat(e) ELSE PosixLstat(e, fs)

\* ByLstat without the try/except around self.lstat()
ByLstatNoExcept(e, fs, fmt) ==
    LET r == PosixLstat(e, fs)
    IN IF r.raised THEN Raise(r.e)
       ELSE Ret(r.e, BitAnd(r.e.lstat, S_IFMT) = fmt)

\* The tail shared by isdir(), isfile() and islink() when there is no type
\* hint: try self.lstat(), False on OSError, else compare the type bits.
ByLstat(e, fs, fmt) ==
    LET r == PosixLstat(e, fs)
    IN IF r.raised THEN Ret(r.e, FALSE)
       ELSE Ret(r.e, BitAnd(r.e.lstat, S_IFMT) = fmt)

\* isdir(), isfile(), islink() of the POSIX class
PosixIsDir(e, fs) ==
    IF e.d_type # DT_UNKNOWN THEN Ret(e, e.d_type = DT_DIR) ELSE ByLstat(e, fs, S_IFDIR)
PosixIsFile(e, fs) ==
    IF e.d_type # DT_UNKNOWN THEN Ret(e, e.d_type = DT_REG) ELSE ByLstat(e, fs, S_IFREG)
PosixIsLink(e, fs) ==
    IF e.d_type # DT_UNKNOWN THEN Ret(e, e.d_type = DT_LNK) ELSE ByLstat(e, fs, S_IFLNK)

\* isdir(), isfile(), islink() of the Win32 class
WinIsDir(e) == Ret(e, BitAnd(e.attrs, FILE_ATTRIBUTE_DIRECTORY) # 0)
WinIsFile(e) == Ret(e, BitAnd(e.attrs, FILE_ATTRIBUTE_DIRECTORY) = 0)
WinIsLink(e) == Ret(e, BitAnd(e.attrs, FILE_ATTRIBUTE_REPARSE_POINT) # 0)

\* isdir(), isfile(), islink() of the fallback class
OtherIsDir(e, fs) == ByLstat(e, fs, S_IFDIR)
OtherIsFile(e, fs) == ByLstat(e, fs, S_IFREG)
OtherIsLink(e, fs) == ByLstat(e, fs, S_IFLNK)

IsDir(plat, e, fs) ==
    CASE plat = "posix" -> PosixIsDir(e, fs)
      [] plat = "win32" -> WinIsDir(e)
      [] plat = "other" -> OtherIsDir(e, fs)
IsFile(plat, e, fs) ==
    CASE plat = "posix" -> PosixIsFile(e, fs)
      [] plat = "win32" -> WinIsFile(e)
      [] plat = "other" -> OtherIsFile(e, fs)
IsLink(plat, e, fs) ==
    CASE plat = "posix" -> PosixIsLink(e, fs)
      [] plat = "win32" -> WinIsLink(e)
      [] plat = "other" -> OtherIsLink(e, fs)

(***************************************************************************)
(* The scandir() generator.  st is "new" (created, body not started),      *)
(* "open" (suspended at its yield), "done" (returned), "failed" (raised)   *)
(* or "closed" (closed by its consumer while suspended or new).  handle    *)
(* tells whether the DIR* / find handle is open; opens, closes and         *)
(* badReads count opendir/FindFirstFile successes, closedir/FindClose      *)
(* calls and reads made on a handle that is not open.                      *)
(***************************************************************************)
NoError == [filename |-> <<"-">>, code |-> "none"]
\* posix_error() / win_error() without "exc.filename = filename"
OSErrorNoFilename(path, code) == [filename |-> <<"-">>, code |-> code]
OSError(path, code) == [filename |-> path, code |-> code]

NewScan(path) ==
    [path |-> path, st |-> "new", stream |-> << >>, pos |-> 0, handle |-> FALSE,
     opens |-> 0, closes |-> 0, badReads |-> 0, err |-> NoError]

\* The outcome of resuming the generator: what it is afterwards, and
\* "yield" with the raw record, "stop" (StopIteration) or "error" (OSError).
Out(g, out, rec) == [g |-> g, out |-> out, rec |-> rec]
NoRec == [name |-> "-", kind |-> "none"]

\* errno left by a failed opendir() / FindFirstFile() / os.listdir()
OpenErrno(fs, path) ==
    LET k == KindAt(fs, Resolve(fs, path))
    IN CASE k \in {"dir", "ioerr"} -> "none"
         [] k = "noperm" -> "EACCES"
         [] k = "none" -> "ENOENT"
         [] OTHER -> "ENOTDIR"

\* The finally clause: one closedir()/FindClose(); its failure replaces
\* whatever the body was doing by an OSError.
\* Finally for a scandir that releases the handle after its loop only,
\* without try/finally
FinallyNotOnError(g, st, err, closeFail) ==
    IF st = "failed" THEN [g EXCEPT !.st = st, !.err = err]
    ELSE [g EXCEPT !.closes = @ + 1, !.handle = FALSE,
                   !.st = IF closeFail THEN "failed" ELSE st,
                   !.err = IF closeFail THEN OSError(g.path, "EBADF") ELSE err]

\* Finally for a scandir that releases the handle in an except clause only
FinallyOnlyOnError(g, st, err, closeFail) ==
    IF st = "done" THEN [g EXCEPT !.st = st, !.err = err]
    ELSE [g EXCEPT !.closes = @ + 1, !.handle = FALSE,
                   !.st = IF closeFail THEN "failed" ELSE st,
                   !.err = IF closeFail THEN OSError(g.path, "EBADF") ELSE err]

Finally(g, st, err, closeFail) ==
    [g EXCEPT !.closes = @ + 1, !.handle = FALSE,
              !.st = IF closeFail THEN "failed" ELSE st,
              !.err = IF closeFail THEN OSError(g.path, "EBADF") ELSE err]

\* One native read (readdir_r / FindNextFile) and what the loop does with
\* it, repeated until the generator yields or ends.  failIn = n > 0 makes
\* the n-th read from here fail; closeFail makes the release fail.
\* ReadLoop without the test "name not in ('.', '..')"
RECURSIVE ReadLoopNoFilter(_, _, _)
ReadLoopNoFilter(g0, failIn, closeFail) ==
    LET g == [g0 EXCEPT !.badReads = IF g0.handle THEN @ ELSE @ + 1]
    IN IF failIn = 1
       THEN Out(Finally(g, "failed", OSError(g.path, "EIO"), closeFail), "error", NoRec)
       ELSE IF g.pos >= Len(g.stream)
       THEN LET f == Finally(g, "done", NoError, closeFail)
            IN Out(f, IF f.st = "done" THEN "stop" ELSE "error", NoRec)
       ELSE Out([g EXCEPT !.pos = @ + 1, !.st = "open"], "yield", g.stream[g.pos + 1])

RECURSIVE ReadLoop(_, _, _)
ReadLoop(g0, failIn, closeFail) ==
    LET g == [g0 EXCEPT !.badReads = IF g0.handle THEN @ ELSE @ + 1]
    IN IF failIn = 1
       THEN Out(Finally(g, "failed", OSError(g.path, "EIO"), closeFail), "error", NoRec)
       ELSE IF g.pos >= Len(g.stream)
       THEN LET f == Finally(g, "done", NoError, closeFail)
            IN Out(f, IF f.st = "done" THEN "stop" ELSE "error", NoRec)
       ELSE LET rec == g.stream[g.pos + 1]
                g1 == [g EXCEPT !.pos = @ + 1]
            IN IF rec.name \notin Dots
               THEN Out([g1 EXCEPT !.st = "open"], "yield", rec)
               ELSE ReadLoop(g1, IF failIn = 0 THEN 0 ELSE failIn - 1, closeFail)

\* scandir() of the POSIX branch, resumed by next()
PosixAdvance(g, fs, stream, failIn, closeFail) ==
    IF g.st = "new"
    THEN IF OpenErrno(fs, g.path) # "none"
         THEN Out([g EXCEPT !.st = "failed", !.err = OSError(g.path, OpenErrno(fs, g.path))],
                  "error", NoRec)
         ELSE ReadLoop([g EXCEPT !.handle = TRUE, !.opens = @ + 1, !.stream = stream],
                       failIn, closeFail)
    ELSE ReadLoop(g, failIn, closeFail)

\* scandir() of the Win32 branch: FindFirstFile() opens the handle and
\* delivers the first record; ERROR_FILE_NOT_FOUND ends the scan quietly.
WinAdvance(g, fs, stream, failIn, closeFail) ==
    IF g.st = "new"
    THEN IF OpenErrno(fs, g.path) # "none"
         THEN Out([g EXCEPT !.st = "failed", !.err = OSError(g.path, OpenErrno(fs, g.path))],
                  "error", NoRec)
         ELSE IF stream = << >>
         THEN Out([g EXCEPT !.st = "done"], "stop", NoRec)
         ELSE LET g1 == [g EXCEPT !.handle = TRUE, !.opens = @ + 1,
                                  !.stream = stream, !.pos = 1]
              IN IF stream[1].name \notin Dots
                 THEN Out([g1 EXCEPT !.st = "open"], "yield", stream[1])
                 ELSE ReadLoop(g1, failIn, closeFail)
    ELSE ReadLoop(g, failIn, closeFail)

\* scandir() of the fallback branch: os.listdir() reads the whole
\* directory and the generator holds no handle of its own.
OtherAdvance(g, fs, stream, failIn) ==
    IF g.st = "new" /\ OpenErrno(fs, g.path) # "none"
    THEN Out([g EXCEPT !.st = "failed", !.err = OSError(g.path, OpenErrno(fs, g.path))],
             "error", NoRec)
    ELSE IF g.st = "new" /\ failIn # 0
    THEN Out([g EXCEPT !.st = "failed", !.err = OSError(g.path, "EIO")], "error", NoRec)
    ELSE LET g1 == IF g.st = "new" THEN [g EXCEPT !.stream = stream] ELSE g
         IN IF g1.pos >= Len(g1.stream)
            THEN Out([g1 EXCEPT !.st = "done"], "stop", NoRec)
            ELSE Out([g1 EXCEPT !.st = "open", !.pos = @ + 1], "yield", g1.stream[g1.pos + 1])

\* next() on a scandir generator that is new or suspended
Advance(plat, g, fs, stream, failIn, closeFail) ==
    CASE plat = "posix" -> PosixAdvance(g, fs, stream, failIn, closeFail)
      [] plat = "win32" -> WinAdvance(g, fs, stream, failIn, closeFail)
      [] plat = "other" -> OtherAdvance(g, fs, stream, failIn)

\* close() on a scandir generator (also what dropping the last reference
\* does): GeneratorExit is raised at the yield and the finally clause runs.
\* CloseGen for a scandir without try/finally
CloseGenLeak(plat, g, closeFail) ==
    IF g.st \in {"new", "open"} THEN [g EXCEPT !.st = "closed"] ELSE g

CloseGen(plat, g, closeFail) ==
    IF g.st = "new" THEN [g EXCEPT !.st = "closed"]
    ELSE IF g.st = "open"
    THEN IF plat = "other" THEN [g EXCEPT !.st = "closed"]
         ELSE Finally(g, "closed", NoError, closeFail)
    ELSE g

\* The failures the environment may inject into one resumption
FailChoices(fs, path) ==
    IF KindAt(fs, Resolve(fs, path)) = "ioerr" THEN 0..3 ELSE {0}
CloseFailChoices(fs, path) ==
    IF KindAt(fs, Resolve(fs, path)) = "ioerr" THEN BOOLEAN ELSE {FALSE}

(***************************************************************************)
(* State.                                                                  *)
(***************************************************************************)
VARIABLES
    plat,        \* which branch of the module was compiled in: "posix", "win32", "other"
    dtKnown,     \* POSIX: whether the file system fills in d_type
    layout,      \* the order in which the OS hands out the records of a directory
    fs,          \* the file system
    \* a consumer iterating scandir(Root) itself
    gen,         \* the scandir generator
    entries,     \* the DirEntry objects it has yielded, in order
    calls,       \* number of DirEntry method calls made
    last,        \* the last method call: entry index, method, value returned,
                 \* whether it raised, number of os.lstat() calls it made
    removed,     \* whether a child of the scanned directory was removed
    changed,     \* the names whose object was replaced since the scan began
    mutations,   \* number of changes made to the file system
    outcome,     \* what the last next(gen) gave: "none", "yield", "stop", "error"
    signalled,   \* number of OSErrors the generator has raised to its consumer
    \* a consumer iterating walk(Root, topdown, onerror, followlinks)
    topdown, followlinks, hasOnerror,
    wstate,      \* "new", "running", "suspended", "done", "crashed", "closed"
    stack,       \* the frames of the nested walk() generators, innermost last
    emitted,     \* the triples yielded to the consumer, in order
    scanned,     \* the paths scandir() has been started on, in order
    failed,      \* the paths whose scan raised OSError
    onerrorCalls,\* the errors handed to onerror, in order
    pruned,      \* paths whose name the consumer removed from a yielded list
    kept,        \* paths whose name the consumer left in a list it removed a name from
    edits,       \* number of lists the consumer edited
    opened,      \* number of scan handles the walk has acquired
    released     \* number of scan handles the walk has released

envVars == <<plat, dtKnown, layout, fs>>
scanVars == <<gen, entries, calls, last, removed, changed, mutations, outcome, signalled>>
walkVars == <<topdown, followlinks, hasOnerror, wstate, stack, emitted, scanned,
              failed, onerrorCalls, pruned, kept, edits, opened, released>>
vars == <<envVars, scanVars, walkVars>>

\* The records of directory p; directories at odd depth are laid out the
\* other way round.
Stream(p) ==
    LET alt == (layout = "alt") # (Len(p) % 2 = 1)
    IN RawStream(fs, p, plat, ~alt, alt)

NoCall == [idx |-> 0, op |-> "none", val |-> None, raised |-> FALSE, queried |-> 0]

InitEnv ==
    /\ plat \in {"posix", "win32", "other"}
    /\ dtKnown \in (IF plat = "posix" THEN BOOLEAN ELSE {FALSE})
    /\ layout \in {"std", "alt"}

InitScanVars ==
    /\ gen = NewScan(Root)
    /\ entries = << >>
    /\ calls = 0
    /\ last = NoCall
    /\ removed = FALSE
    /\ changed = {}
    /\ mutations = 0
    /\ outcome = "none"
    /\ signalled = 0

InitWalkVars ==
    /\ wstate = "new"
    /\ stack = << >>
    /\ emitted = << >>
    /\ scanned = << >>
    /\ failed = {}
    /\ onerrorCalls = << >>
    /\ pruned = {}
    /\ kept = {}
    /\ edits = 0
    /\ opened = 0
    /\ released = 0

(***************************************************************************)
(* A consumer of scandir(Root) that advances or closes the generator       *)
(* itself, while another process may change the directory.                 *)
(***************************************************************************)
\* The file systems whose objects are all children of the root.
FlatTrees ==
    {t \in TreesUpTo(MaxNodes) :
        \A p \in DOMAIN t : Len(p) <= 1 /\ (Len(p) = 1 => t[p] \in {"dir", "file", "link"})}

\* The file systems in which the scanned path does not exist, or is a file.
BadRoots == {[p \in {} |-> "none"], (Root :> "file")}

InitScan ==
    /\ InitEnv
    /\ fs \in FlatTrees \cup BadRoots
    /\ InitScanVars
    /\ InitWalkVars
    /\ topdown = TRUE /\ followlinks = FALSE /\ hasOnerror = FALSE

\* next(gen)
ScanNext ==
    /\ gen.st \in {"new", "open"}
    /\ \E failIn \in FailChoices(fs, gen.path), closeFail \in CloseFailChoices(fs, gen.path) :
         LET r == Advance(plat, gen, fs, Stream(gen.path), failIn, closeFail)
         IN /\ gen' = r.g
            /\ entries' = IF r.out = "yield"
                          THEN Append(entries, DirEntry(plat, dtKnown, gen.path, r.rec))
                          ELSE entries
            /\ outcome' = r.out
            /\ signalled' = IF r.out = "error" THEN signalled + 1 ELSE signalled
    /\ UNCHANGED <<envVars, calls, last, removed, changed, mutations, walkVars>>

\* next(gen) on a generator that has returned, raised or been closed:
\* StopIteration, and nothing else happens.
AdvanceEnded(g) == Out(g, "stop", NoRec)

ScanNextEnded ==
    /\ gen.st \in {"done", "failed", "closed"}
    /\ LET r == AdvanceEnded(gen)
       IN /\ gen' = r.g
          /\ entries' = IF r.out = "yield"
                        THEN Append(entries, DirEntry(plat, dtKnown, gen.path, r.rec))
                        ELSE entries
          /\ outcome' = r.out
          /\ signalled' = IF r.out = "error" THEN signalled + 1 ELSE signalled
    /\ UNCHANGED <<envVars, calls, last, removed, changed, mutations, walkVars>>

\* gen.close()
ScanClose ==
    /\ gen.st \in {"new", "open"}
    /\ \E closeFail \in CloseFailChoices(fs, gen.path) :
         LET g == CloseGen(plat, gen, closeFail)
         IN /\ gen' = g
            /\ signalled' = IF g.st = "failed" THEN signalled + 1 ELSE signalled
    /\ UNCHANGED <<envVars, entries, calls, last, removed, changed, mutations, outcome,
                   walkVars>>

\* Another process removes a child of the scanned directory, or replaces
\* it by an object of another kind.
Replacement(k) == IF k = "file" THEN "dir" ELSE "file"

Mutate ==
    /\ mutations < MaxMutations
    /\ gen.st # "new"
    /\ \E nm \in Names, rm \in BOOLEAN :
         LET p == join(Root, nm)
         IN /\ p \in DOMAIN fs
            /\ fs' = IF rm
                     THEN [q \in DOMAIN fs \ {p} |-> fs[q]]
                     ELSE [fs EXCEPT ![p] = Replacement(fs[p])]
            /\ removed' = (removed \/ rm)
            /\ changed' = changed \cup {nm}
    /\ mutations' = mutations + 1
    /\ UNCHANGED <<plat, dtKnown, layout, gen, entries, calls, last, outcome, signalled,
                   walkVars>>

NextScan == ScanNext \/ ScanNextEnded \/ ScanClose \/ Mutate

SpecScan == InitScan /\ [][NextScan]_vars

(***************************************************************************)
(* A consumer that runs entries = list(scandir(Root)) and then calls the   *)
(* methods of the entries, while another process may change the files.     *)
(***************************************************************************)
\* list(gen): the generator is resumed until it stops; the entries are
\* kept only when no resumption raised.
RECURSIVE Drain(_, _, _, _, _)
Drain(pl, known, g, f, acc) ==
    LET r == Advance(pl, g, f, RawStream(f, g.path, pl, TRUE, FALSE), 0, FALSE)
    IN CASE r.out = "yield" -> Drain(pl, known, r.g, f, Append(acc, DirEntry(pl, known, g.path, r.rec)))
         [] r.out = "stop" -> [g |-> r.g, list |-> acc]
         [] r.out = "error" -> [g |-> r.g, list |-> << >>]

InitEntry ==
    /\ InitEnv
    /\ layout = "std"
    /\ fs \in {t \in FlatTrees : t[Root] = "dir"}
    /\ InitScanVars
    /\ InitWalkVars
    /\ topdown = TRUE /\ followlinks = FALSE /\ hasOnerror = FALSE

ListDir ==
    /\ gen.st = "new"
    /\ LET d == Drain(plat, dtKnown, gen, fs, << >>)
       IN /\ gen' = d.g /\ entries' = d.list
          /\ outcome' = IF d.g.st = "failed" THEN "error" ELSE "stop"
          /\ signalled' = IF d.g.st = "failed" THEN signalled + 1 ELSE signalled
    /\ UNCHANGED <<envVars, calls, last, removed, changed, mutations, walkVars>>

Call(i, op, r) ==
    /\ calls < MaxCalls
    /\ gen.st = "done"
    /\ calls' = calls + 1
    /\ entries' = [entries EXCEPT ![i] = r.e]
    /\ last' = [idx |-> i, op |-> op, val |-> r.val, raised |-> r.raised,
                queried |-> r.e.queries - entries[i].queries]
    /\ UNCHANGED <<envVars, gen, removed, changed, mutations, outcome, signalled, walkVars>>

CallLstat == \E i \in 1..Len(entries) : Call(i, "lstat", Lstat(plat, entries[i], fs))
CallIsDir == \E i \in 1..Len(entries) : Call(i, "isdir", IsDir(plat, entries[i], fs))
CallIsFile == \E i \in 1..Len(entries) : Call(i, "isfile", IsFile(plat, entries[i], fs))
CallIsLink == \E i \in 1..Len(entries) : Call(i, "islink", IsLink(plat, entries[i], fs))

NextEntry == ListDir \/ CallLstat \/ CallIsDir \/ CallIsFile \/ CallIsLink \/ Mutate

SpecEntry == InitEntry /\ [][NextEntry]_vars

(***************************************************************************)
(* walk(Root, topdown, onerror, followlinks) and its consumer.  Each       *)
(* nested walk() generator is a frame; pc is "scan" (in the scandir loop), *)
(* "yielded_td" (suspended at the top-down yield), "recurse" (in the loop  *)
(* over dirs) or "yielded_bu" (suspended at the bottom-up yield).  The     *)
(* outer frames are suspended at the yield of their recursion loop.        *)
(***************************************************************************)
NewFrame(top) ==
    [top |-> top, pc |-> "scan", gen |-> NewScan(top), dirs |-> << >>,
     nondirs |-> << >>, dir_names |-> << >>, idx |-> 0]

NamesOf(es) == [i \in 1..Len(es) |-> es[i].name]
Range(s) == {s[i] : i \in 1..Len(s)}
Front(s) == SubSeq(s, 1, Len(s) - 1)
Top == stack[Len(stack)]

\* The triple "top, [e.name for e in dirs], [e.name for e in nondirs]"
TripleSwapped(top, ds, fl) == [path |-> top, dirs |-> fl, files |-> ds]
Triple(top, ds, fl) == [path |-> top, dirs |-> ds, files |-> fl]

\* The lists a consumer may leave in place of a yielded dir_names: any
\* names, in any order, none twice.
NameLists ==
    {s \in UNION {[1..n -> Names] : n \in 0..Cardinality(Names)} :
        \A i, j \in 1..Len(s) : i # j => s[i] # s[j]}

\* entries_by_name.get(dir_name) for every name of the list; a name that
\* was not scanned reaches the undefined TODO_DirEntry and raises NameError.
Lookup(es, nm) == CHOOSE e \in Range(es) : e.name = nm
RebuildIgnoringEdits(es, names) == es
\* Rebuild that drops the removed names but keeps the order of the scan
RebuildScanOrder(es, names) == SelectSeq(es, LAMBDA e : e.name \in Range(names))
Rebuild(es, names) == [i \in 1..Len(names) |-> Lookup(es, names[i])]
AllScanned(es, names) == Range(names) \subseteq Range(NamesOf(es))

\* Where walk() yields its triple: before the recursion when topdown,
\* after it otherwise.
YieldPointAlwaysAfter(td) == "after"
YieldPointAlwaysBefore(td) == "before"

YieldPoint(td) == IF td THEN "before" ELSE "after"

\* "except OSError as error": onerror is called if there is one, and
\* walk() returns; nothing is raised to the caller.
HandleScanErrorReraise(handler, errs, err) ==
    [errs |-> IF handler THEN Append(errs, err) ELSE errs, raised |-> ~handler]
HandleScanErrorTwice(handler, errs, err) ==
    [errs |-> IF handler THEN errs \o <<err, err>> ELSE errs, raised |-> FALSE]

HandleScanError(handler, errs, err) ==
    [errs |-> IF handler THEN Append(errs, err) ELSE errs, raised |-> FALSE]

\* new_path = join(top, entry.name)
NewPathNameOnly(top, name) == <<name>>
NewPath(top, name) == join(top, name)

\* "if followlinks or not entry.islink()"
DescendsAlways(fl, isl) == TRUE
Descends(fl, isl) == fl \/ ~isl

\* A frame returns: its caller goes on, or the walk is over.
Return ==
    /\ stack' = Front(stack)
    /\ wstate' = IF Len(stack) = 1 THEN "done" ELSE "running"

\* The first next() on the walk generator
WalkStart ==
    /\ wstate = "new"
    /\ wstate' = "running"
    /\ stack' = <<NewFrame(Root)>>
    /\ UNCHANGED <<envVars, scanVars, topdown, followlinks, hasOnerror, emitted,
                   scanned, failed, onerrorCalls, pruned, kept, edits, opened, released>>

\* One round of "for entry in scandir(top)": the entry is classified by
\* isdir(); at the end of the scan the top-down triple is yielded; an
\* OSError goes to onerror and ends this walk() without a triple.
WalkScan ==
    /\ wstate = "running"
    /\ Top.pc = "scan"
    /\ \E failIn \in FailChoices(fs, Top.top), closeFail \in CloseFailChoices(fs, Top.top) :
         \E r \in {Advance(plat, Top.gen, fs, Stream(Top.top), failIn, closeFail)} :
         LET f == Top
             c == IsDir(plat, DirEntry(plat, dtKnown, f.top, r.rec), fs)
             f1 == [f EXCEPT !.gen = r.g]
             f2 == IF c.val THEN [f1 EXCEPT !.dirs = Append(@, c.e)]
                   ELSE [f1 EXCEPT !.nondirs = Append(@, c.e)]
         IN /\ scanned' = IF f.gen.st = "new" THEN Append(scanned, f.top) ELSE scanned
            /\ opened' = opened + (r.g.opens - f.gen.opens)
            /\ released' = released + (r.g.closes - f.gen.closes)
            /\ CASE r.out = "yield" ->
                      /\ stack' = [stack EXCEPT ![Len(stack)] = f2]
                      /\ UNCHANGED <<wstate, emitted, failed, onerrorCalls>>
                 [] r.out = "error" ->
                      LET h == HandleScanError(hasOnerror, onerrorCalls, r.g.err)
                      IN /\ onerrorCalls' = h.errs
                         /\ failed' = failed \cup {f.top}
                         /\ IF h.raised
                            THEN stack' = << >> /\ wstate' = "crashed"
                            ELSE Return
                         /\ UNCHANGED emitted
                 [] r.out = "stop" /\ YieldPoint(topdown) = "before" ->
                      /\ stack' = [stack EXCEPT ![Len(stack)] =
                                     [f1 EXCEPT !.pc = "yielded_td", !.dir_names = NamesOf(f.dirs)]]
                      /\ emitted' = Append(emitted, Triple(f.top, NamesOf(f.dirs), NamesOf(f.nondirs)))
                      /\ wstate' = "suspended"
                      /\ UNCHANGED <<failed, onerrorCalls>>
                 [] r.out = "stop" /\ YieldPoint(topdown) = "after" ->
                      /\ stack' = [stack EXCEPT ![Len(stack)] = [f1 EXCEPT !.pc = "recurse"]]
                      /\ UNCHANGED <<wstate, emitted, failed, onerrorCalls>>
    /\ UNCHANGED <<envVars, scanVars, topdown, followlinks, hasOnerror, pruned, kept, edits>>

\* next() after a top-down triple: the consumer may have edited the list
\* of names; dirs is rebuilt from what it left.
WalkResumeTopDown ==
    /\ wstate = "suspended"
    /\ Top.pc = "yielded_td"
    /\ \E names \in NameLists :
         LET f == Top
         IN /\ names # f.dir_names => edits < MaxEdits
            /\ edits' = IF names # f.dir_names THEN edits + 1 ELSE edits
            /\ pruned' = pruned \cup {join(f.top, nm) : nm \in Range(f.dir_names) \ Range(names)}
            /\ kept' = IF Range(f.dir_names) \subseteq Range(names) THEN kept
                       ELSE kept \cup {join(f.top, nm) : nm \in Range(f.dir_names) \cap Range(names)}
            /\ IF AllScanned(f.dirs, names)
               THEN /\ stack' = [stack EXCEPT ![Len(stack)] =
                                   [f EXCEPT !.pc = "recurse", !.dir_names = names,
                                             !.dirs = Rebuild(f.dirs, names)]]
                    /\ wstate' = "running"
               ELSE /\ stack' = << >>
                    /\ wstate' = "crashed"
    /\ UNCHANGED <<envVars, scanVars, topdown, followlinks, hasOnerror, emitted,
                   scanned, failed, onerrorCalls, opened, released>>

\* One round of "for entry in dirs": walk(new_path) is started unless the
\* entry is a link that is not to be followed; after the last round the
\* bottom-up triple is yielded, or the top-down walk() returns.
WalkRecurse ==
    /\ wstate = "running"
    /\ Top.pc = "recurse"
    /\ LET f == Top
       IN IF f.idx < Len(f.dirs)
          THEN LET r == IsLink(plat, f.dirs[f.idx + 1], fs)
                   f1 == [f EXCEPT !.idx = @ + 1, !.dirs[f.idx + 1] = r.e]
                   new_path == NewPath(f.top, r.e.name)
               IN /\ IF Descends(followlinks, r.val)
                     THEN /\ Len(new_path) <= MaxWalkDepth
                          /\ stack' = Append([stack EXCEPT ![Len(stack)] = f1], NewFrame(new_path))
                     ELSE stack' = [stack EXCEPT ![Len(stack)] = f1]
                  /\ UNCHANGED <<wstate, emitted>>
          ELSE IF YieldPoint(topdown) = "before"
          THEN Return /\ UNCHANGED emitted
          ELSE /\ stack' = [stack EXCEPT ![Len(stack)] = [f EXCEPT !.pc = "yielded_bu"]]
               /\ emitted' = Append(emitted, Triple(f.top, NamesOf(f.dirs), NamesOf(f.nondirs)))
               /\ wstate' = "suspended"
    /\ UNCHANGED <<envVars, scanVars, topdown, followlinks, hasOnerror, scanned,
                   failed, onerrorCalls, pruned, kept, edits, opened, released>>

\* next() after a bottom-up triple: that walk() returns
WalkResumeBottomUp ==
    /\ wstate = "suspended"
    /\ Top.pc = "yielded_bu"
    /\ Return
    /\ UNCHANGED <<envVars, scanVars, topdown, followlinks, hasOnerror, emitted,
                   scanned, failed, onerrorCalls, pruned, kept, edits, opened, released>>

\* close() on the walk generator: GeneratorExit unwinds every frame
WalkClose ==
    /\ wstate = "suspended"
    /\ wstate' = "closed"
    /\ stack' = << >>
    /\ released' = released + Cardinality({i \in 1..Len(stack) :
                        CloseGen(plat, stack[i].gen, FALSE).closes > stack[i].gen.closes})
    /\ UNCHANGED <<envVars, scanVars, topdown, followlinks, hasOnerror, emitted,
                   scanned, failed, onerrorCalls, pruned, kept, edits, opened>>

InitWalk ==
    /\ InitEnv
    /\ layout = "alt"
    /\ fs \in {t \in TreesUpTo(MaxNodes) : t[Root] = "dir"}
    /\ InitScanVars
    /\ InitWalkVars
    /\ topdown \in BOOLEAN
    /\ followlinks \in BOOLEAN
    /\ hasOnerror \in BOOLEAN

NextWalk ==
    \/ WalkStart \/ WalkScan \/ WalkResumeTopDown \/ WalkRecurse
    \/ WalkResumeBottomUp \/ WalkClose

SpecWalk == InitWalk /\ [][NextWalk]_vars

\* walk(Root, topdown, onerror) with a consumer that keeps calling next()
\* for as long as it has not closed the generator; the code between two
\* yields is sequential and always runs on.  The directories of the tree
\* can be read to their end, or cannot be opened at all.
WalkOn == WalkStart \/ WalkScan \/ WalkResumeTopDown \/ WalkRecurse \/ WalkResumeBottomUp

InitWalkFair ==
    /\ InitWalk
    /\ ~followlinks
    /\ hasOnerror
    /\ \A p \in DOMAIN fs : fs[p] # "ioerr"

SpecWalkFair == InitWalkFair /\ [][NextWalk]_vars /\ WF_vars(WalkOn)

(***************************************************************************)
(* Properties of scandir().                                                *)
(***************************************************************************)
Yielded == NamesOf(entries)
Ended == gen.st \in {"done", "failed", "closed"}

\* C1: as long as no child of the scanned directory was removed, scandir
\* never yields "." or "..", yields no name twice and yields only names of
\* the reference listing; a scan that ran to its end has yielded every
\* name of the reference listing.
C1_ScanYieldsListing ==
    ~removed =>
        /\ Range(Yielded) \cap Dots = {}
        /\ \A i, j \in 1..Len(Yielded) : i # j => Yielded[i] # Yielded[j]
        /\ Range(Yielded) \subseteq RefListing(fs, Root)
        /\ gen.st = "done" => Range(Yielded) = RefListing(fs, Root)

\* a POSIX scan of two children, whose stream held the pseudo-entries,
\* ran to its end
C1_Witness ==
    /\ plat = "posix" /\ gen.st = "done" /\ ~removed
    /\ Len(gen.stream) = 4 /\ Len(entries) = 2

\* C2: the handle of a scan is opened at most once and released at most
\* once, no read is made on a handle that is not open, a suspended scan
\* holds its handle, and a scan that has ended (ran to its end, failed or
\* was closed) after a successful open has released it exactly once.
C2_HandleReleasedOnce ==
    /\ gen.opens <= 1
    /\ gen.closes <= gen.opens
    /\ gen.badReads = 0
    /\ gen.handle <=> (gen.opens = 1 /\ gen.closes = 0)
    /\ (gen.st = "open" /\ plat # "other") => gen.handle
    /\ (Ended /\ gen.opens = 1) => (gen.closes = 1 /\ ~gen.handle)

\* a scan of two children was closed after its first entry
C2_Witness ==
    /\ gen.st = "closed" /\ gen.opens = 1 /\ gen.closes = 1
    /\ Len(entries) = 1 /\ Cardinality(RefListing(fs, Root)) = 2 /\ ~removed

(***************************************************************************)
(* Properties of DirEntry.                                                 *)
(***************************************************************************)
IsOps == {"isdir", "isfile", "islink"}
FmtOf(op) ==
    CASE op = "isdir" -> S_IFDIR
      [] op = "isfile" -> S_IFREG
      [] op = "islink" -> S_IFLNK

\* whether the enumeration step gave the entry a definite type
HasHint(e) == IF plat = "win32" THEN TRUE ELSE e.d_type # DT_UNKNOWN

\* st_mode of a full status query on the entry now: what its lstat() would
\* compute were nothing cached.  None when the query fails.
StatusNow(e) ==
    IF plat = "win32" THEN find_data_to_stat(e.attrs) ELSE NativeLstat(fs, e.path, e.name)

\* C3: once lstat has a cached record, no step makes another os.lstat()
\* call for the entry or changes the record, and every lstat() that
\* returns, returns the record cached in the entry; on POSIX and the
\* fallback a cached record comes from exactly one successful query.
C3_LstatMemoized ==
    [][/\ \A i \in 1..Len(entries) :
            entries[i].lstat # None =>
                /\ entries'[i].lstat = entries[i].lstat
                /\ entries'[i].queries = entries[i].queries
       /\ (last'.op = "lstat" /\ ~last'.raised /\ calls' # calls) =>
            /\ last'.val = entries'[last'.idx].lstat
            /\ last'.val # None
            /\ plat # "win32" => entries'[last'.idx].queries = 1]_vars

\* lstat() was called on an entry whose record was cached by an earlier
\* call, after the file was replaced: the record returned is not what a
\* new query would return, and one query was made
C3_Witness ==
    /\ calls >= 2 /\ last.op = "lstat" /\ ~last.raised
    /\ entries[last.idx].queries = 1
    /\ entries[last.idx].name \in changed
    /\ last.val # StatusNow(entries[last.idx])

\* C4 (as claimed): for an entry with a definite type hint whose file was
\* not changed, isdir(), isfile() and islink() return what the type bits of
\* a full status query give, and no status query is made for the entry.
C4_HintAgreesWithStatus ==
    (/\ last.op \in IsOps
     /\ HasHint(entries[last.idx])
     /\ entries[last.idx].name \notin changed) =>
        /\ ~last.raised
        /\ last.val = (BitAnd(StatusNow(entries[last.idx]), S_IFMT) = FmtOf(last.op))
        /\ last.queried = 0

\* C5: isdir(), isfile() and islink() never raise; on an entry without a
\* usable type hint whose status query failed they return False.
C5_FailedQueryIsFalse ==
    last.op \in IsOps =>
        /\ ~last.raised
        /\ (~HasHint(entries[last.idx]) /\ entries[last.idx].lstat = None) =>
              (last.val = FALSE /\ last.queried = 1)

\* isdir() was called on an entry without a type hint after its file was
\* removed: the query was made and failed
C5_Witness ==
    /\ last.op = "isdir" /\ ~HasHint(entries[last.idx])
    /\ entries[last.idx].lstat = None /\ last.queried = 1
    /\ StatusNow(entries[last.idx]) = None
    /\ last.val = FALSE /\ ~last.raised

(***************************************************************************)
(* Properties of walk().                                                   *)
(***************************************************************************)
IsPrefix(p, q) == Len(p) <= Len(q) /\ SubSeq(q, 1, Len(p)) = p
IsProperPrefix(p, q) == Len(p) < Len(q) /\ SubSeq(q, 1, Len(p)) = p
EmittedPaths == {emitted[i].path : i \in 1..Len(emitted)}

\* C6: in a top-down walk no triple comes after the triple of a directory
\* beneath it, and the triple of a directory other than the root comes
\* after the triple of its parent.
C6_PreOrder ==
    topdown =>
        \A j \in 1..Len(emitted) :
            /\ \A i \in 1..(j - 1) : ~IsProperPrefix(emitted[j].path, emitted[i].path)
            /\ emitted[j].path # Root =>
                 \E i \in 1..(j - 1) : emitted[i].path = Front(emitted[j].path)

\* a top-down walk nobody edited ended after the triples of the root, of a
\* subdirectory and of a third directory
C6_Witness ==
    /\ topdown /\ wstate = "done" /\ edits = 0
    /\ Len(emitted) = 3 /\ emitted[1].path = Root /\ Len(emitted[2].path) = 1

\* whether walk() passes over the subdirectory at path q because it is a
\* link and links are not followed
LinkNotFollowed(q) ==
    ~followlinks /\ KindAt(fs, join(Resolve(fs, Front(q)), q[Len(q)])) = "link"

\* a name removed by the consumer is never scanned and gets no triple,
\* nor does any path beneath it
PrunedStaysOut ==
    \A p \in pruned :
        /\ \A i \in 1..Len(scanned) : ~IsPrefix(p, scanned[i])
        /\ \A q \in EmittedPaths : ~IsPrefix(p, q)

\* C7 (as claimed): PrunedStaysOut, and when the walk has ended every name
\* the consumer left in a list it removed a name from has been descended
\* into.
C7_PruneAsClaimed ==
    /\ PrunedStaysOut
    /\ (topdown /\ wstate = "done") => \A p \in kept : p \in Range(scanned)

\* C7 (amended): PrunedStaysOut, and when the walk has ended every name the
\* consumer left in a list it removed a name from has been descended into,
\* unless it is a link and followlinks is off.
C7_Prune ==
    /\ PrunedStaysOut
    /\ (topdown /\ wstate = "done") =>
          \A p \in kept : p \in Range(scanned) \/ LinkNotFollowed(p)

\* the consumer removed the name of a directory and left another one,
\* and the walk ended
C7_Witness ==
    /\ topdown /\ wstate = "done"
    /\ \E p \in pruned : KindAt(fs, p) = "dir"
    /\ \E p \in kept : p \in EmittedPaths

\* C8: in a bottom-up walk no triple comes before the triple of a
\* directory beneath it, and the last triple of a walk that has ended is
\* the root's.
C8_PostOrder ==
    ~topdown =>
        /\ \A j \in 1..Len(emitted) :
              \A i \in 1..(j - 1) : ~IsProperPrefix(emitted[i].path, emitted[j].path)
        /\ (wstate = "done" /\ Root \notin failed) =>
              (emitted # << >> /\ emitted[Len(emitted)].path = Root)

\* a bottom-up walk ended after three triples, the first of them for a
\* directory two levels down
C8_Witness ==
    /\ ~topdown /\ wstate = "done"
    /\ Len(emitted) = 3 /\ Len(emitted[1].path) = 2 /\ emitted[3].path = Root

\* C9: a failed scan is not raised out of the walk (only a name the
\* consumer added ends it that way); the directory whose scan failed gets
\* no triple and nothing beneath it is scanned or gets one; and when the
\* walk has ended, every subdirectory named in a triple has its own
\* triple unless its scan failed, the consumer removed it, or it is a link
\* that is not followed.
C9_ScanFailureContained ==
    /\ wstate = "crashed" => edits > 0
    /\ \A p \in failed :
          /\ \A q \in EmittedPaths : ~IsPrefix(p, q)
          /\ \A i \in 1..Len(scanned) : ~IsProperPrefix(p, scanned[i])
    /\ wstate = "done" =>
          /\ Root \in failed \/ Root \in EmittedPaths
          /\ \A i \in 1..Len(emitted) : \A nm \in Range(emitted[i].dirs) :
                LET q == join(emitted[i].path, nm)
                IN q \in failed \/ q \in pruned \/ LinkNotFollowed(q) \/ q \in EmittedPaths

\* the scan of one subdirectory of the root failed, and a sibling scanned
\* after it has its triple
C9_Witness ==
    /\ wstate = "done" /\ edits = 0
    /\ \E i, j \in 1..Len(scanned) :
          /\ i < j /\ Len(scanned[i]) = 1 /\ Len(scanned[j]) = 1
          /\ scanned[i] \in failed /\ scanned[j] \in EmittedPaths

\* C10: with a handler, the errors it was given are one for each
\* directory whose scan failed, in no case two for one directory, each
\* carrying the path of its directory; without one nothing is recorded.
C10_HandlerOncePerFailure ==
    /\ hasOnerror =>
          /\ {onerrorCalls[i].filename : i \in 1..Len(onerrorCalls)} = failed
          /\ \A i, j \in 1..Len(onerrorCalls) :
                i # j => onerrorCalls[i].filename # onerrorCalls[j].filename
          /\ \A i \in 1..Len(onerrorCalls) :
                /\ onerrorCalls[i].filename \in Range(scanned)
                /\ onerrorCalls[i].filename \notin EmittedPaths
                /\ onerrorCalls[i].code # "none"
    /\ ~hasOnerror => onerrorCalls = << >>

\* a walk with a handler ended with one failed scan and two triples
C10_Witness ==
    /\ hasOnerror /\ wstate = "done"
    /\ Len(onerrorCalls) = 1 /\ Len(emitted) = 2

\* the names of the children of directory p that are symbolic links
LinksIn(p) == {nm \in Names : KindAt(fs, join(Resolve(fs, p), nm)) = "link"}

\* C11 (as claimed): a symbolic link to a directory is among the
\* subdirectory names of its parent's triple; with followlinks off its
\* path gets no triple; with followlinks on, a walk nobody edited that has
\* ended has emitted a triple for its path.
C11_LinkListedAsDir ==
    \A i \in 1..Len(emitted) : \A nm \in LinksIn(emitted[i].path) :
        /\ nm \in Range(emitted[i].dirs)
        /\ ~followlinks => join(emitted[i].path, nm) \notin EmittedPaths
        /\ (followlinks /\ wstate = "done" /\ edits = 0) =>
              join(emitted[i].path, nm) \in EmittedPaths

\* C12 (as claimed): the walk never ends by an exception, whatever names
\* the consumer leaves in a yielded list, names that were not scanned
\* included.
C12_AddedNameNoError ==
    edits > 0 => wstate # "crashed"

\* the walk met no symbolic link and no failing scan, and its consumer
\* edited nothing
PlainWalk ==
    /\ \A p \in DOMAIN fs : fs[p] # "link"
    /\ failed = {}
    /\ edits = 0

\* C13: in a walk of a tree without symbolic links whose scans all succeed
\* and whose lists nobody edits, no path gets two triples and only
\* directories get one; when the walk has ended every directory has its
\* triple, and the path of every triple but the root's is the path of
\* another triple joined with one of its subdirectory names.
C13_OneTriplePerDirectory ==
    PlainWalk =>
        /\ \A i, j \in 1..Len(emitted) : emitted[i].path = emitted[j].path => i = j
        /\ EmittedPaths \subseteq {p \in DOMAIN fs : fs[p] \in DirKinds}
        /\ wstate = "done" =>
             /\ EmittedPaths = {p \in DOMAIN fs : fs[p] \in DirKinds}
             /\ \A i \in 1..Len(emitted) :
                  \/ emitted[i].path = Root
                  \/ \E j \in 1..Len(emitted) : \E nm \in Range(emitted[j].dirs) :
                        emitted[i].path = join(emitted[j].path, nm)

C13_Witness ==
    /\ PlainWalk
    /\ wstate = "done"
    /\ Len(emitted) = 2
    /\ \E p \in DOMAIN fs : fs[p] = "file"
    /\ \E p \in DOMAIN fs : Len(p) = 1 /\ fs[p] = "dir"

\* the children of directory p in the order its scan reports them
ScanOrder(p) == SelectSeq(Stream(p), LAMBDA r : r.name \notin Dots)
\* what isdir() answers for the entry made of record r of directory p
SaysDir(p, r) == IsDir(plat, DirEntry(plat, dtKnown, p, r), fs).val

\* C14: whenever the walk is suspended at a yield, the subdirectory list
\* of the triple it has just yielded is the children for which isdir() is
\* true, its other list is the remaining children, each in the order of
\* the scan; so every child is once in exactly one of the lists.
C14_ListsPartitionChildren ==
    wstate = "suspended" =>
        LET t == emitted[Len(emitted)]
            order == ScanOrder(t.path)
        IN /\ t.dirs = NamesOf(SelectSeq(order, LAMBDA r : SaysDir(t.path, r)))
           /\ t.files = NamesOf(SelectSeq(order, LAMBDA r : ~SaysDir(t.path, r)))
           /\ Range(t.dirs) \cap Range(t.files) = {}
           /\ Range(t.dirs) \cup Range(t.files) = RefListing(fs, t.path)
           /\ Len(t.dirs) + Len(t.files) = Cardinality(RefListing(fs, t.path))

\* a triple whose two children went one to each list
C14_Witness ==
    \E i \in 1..Len(emitted) :
        /\ Len(emitted[i].dirs) = 1 /\ Len(emitted[i].files) = 1
        /\ Cardinality(RefListing(fs, emitted[i].path)) = 2

\* C15: when the directory cannot be opened the scan yields no entry,
\* acquires and releases no handle, and the only thing it ever raises is
\* one OSError with the path and the error code of the failed open.
C15_OpenFailure ==
    OpenErrno(fs, gen.path) # "none" =>
        /\ entries = << >>
        /\ gen.opens = 0 /\ gen.closes = 0 /\ ~gen.handle
        /\ gen.st \in {"new", "failed", "closed"}
        /\ outcome = "error" => /\ gen.st = "failed"
                                /\ gen.err = [filename |-> gen.path,
                                              code |-> OpenErrno(fs, gen.path)]
        /\ gen.st = "failed" <=> signalled = 1
        /\ outcome # "yield"

\* scandir() of a path that does not exist has raised ENOENT
C15_Witness ==
    /\ outcome = "error"
    /\ gen.err.code = "ENOENT"
    /\ gen.err.filename = gen.path
    /\ gen.opens = 0

\* C16: a scan that failed at a read step (or at the release that follows
\* it) has released the handle it had acquired, has raised one OSError that
\* carries the scanned path, and has given nothing but StopIteration to the
\* advances made since.
C16_ReadFailure ==
    /\ (gen.st = "failed" /\ gen.err.code \in {"EIO", "EBADF"}) =>
          /\ ~gen.handle
          /\ gen.closes = gen.opens
          /\ plat # "other" => gen.opens = 1
          /\ gen.err.filename = gen.path
          /\ signalled = 1
          /\ gen.badReads = 0
    /\ (gen.st = "failed" /\ gen.err.code = "EIO") => outcome \in {"error", "stop"}

\* a read failed after an entry had been yielded, and the generator was
\* advanced again
C16_Witness ==
    /\ gen.st = "failed"
    /\ gen.err = [filename |-> Root, code |-> "EIO"]
    /\ Len(entries) >= 1
    /\ gen.opens = 1 /\ gen.closes = 1
    /\ outcome = "stop"

\* C17: a call of lstat() that has to ask the operating system raises
\* OSError exactly when that query fails, and then leaves the cached status
\* unset (so the next call asks again).
C17_LstatPropagates ==
    [][\A i \in 1..Len(entries) :
         (calls' = calls + 1 /\ last'.idx = i /\ last'.op = "lstat"
            /\ entries[i].lstat = None /\ plat # "win32") =>
              /\ last'.raised <=> NativeLstat(fs, entries[i].path, entries[i].name) = None
              /\ last'.raised => /\ entries'[i].lstat = None
                                 /\ last'.val = None
                                 /\ last'.queried = 1]_vars

\* lstat() has raised for an entry whose file was removed after the scan
C17_Witness ==
    /\ last.op = "lstat"
    /\ last.raised
    /\ last.queried = 1
    /\ entries[last.idx].lstat = None
    /\ removed

\* C18: with followlinks off, the walk of a consumer that keeps asking for
\* the next triple, edits no list and does not close the generator comes
\* to its end, symbolic links to an ancestor directory notwithstanding.
C18_WalkEnds ==
    <>(wstate = "done" \/ wstate = "closed" \/ edits > 0)

\* a walk that has ended in a tree with a link to the root which isdir()
\* took for a directory
C18_Witness ==
    /\ ~followlinks
    /\ wstate = "done"
    /\ edits = 0
    /\ \E i \in 1..Len(emitted) : \E nm \in LinksIn(emitted[i].path) :
          nm \in Range(emitted[i].dirs)

\* the list whose order frame f has to follow: the names the consumer left
\* in the yielded list, or the subdirectories in the order of the scan
ListOf(f) ==
    IF topdown THEN f.dir_names
    ELSE NamesOf(SelectSeq(ScanOrder(f.top), LAMBDA r : SaysDir(f.top, r)))
\* the paths frame f should have descended into so far, in order (the
\* last of them has no scan yet while its walk() has not begun to run)
Descents(f) ==
    LET l == SubSeq(ListOf(f), 1, f.idx)
    IN SelectSeq([k \in 1..Len(l) |-> join(f.top, l[k])], LAMBDA q : ~LinkNotFollowed(q))
\* the children of f.top that were scanned, in the order of their scans
ChildScans(f) ==
    SelectSeq(scanned, LAMBDA p : Len(p) = Len(f.top) + 1 /\ IsPrefix(f.top, p))
\* the paths beneath any one directory are next to one another in s:
\* their places in s end once
Contiguous(s) ==
    \A i \in 1..Len(s) : \A n \in 1..Len(s[i]) :
        LET at == {j \in 1..Len(s) : IsPrefix(SubSeq(s[i], 1, n), s[j])}
        IN Cardinality({j \in at : j + 1 \notin at}) = 1

\* C19: every walk() descends into its subdirectories in the order of its
\* list (the consumer's edited list when top-down, the order of the scan
\* otherwise), and the triples yielded for one subdirectory's subtree all
\* come before those of the next one's.
C19_ListOrder ==
    /\ \A d \in 1..Len(stack) :
          stack[d].pc \in {"recurse", "yielded_bu"} =>
              ChildScans(stack[d]) =
                  IF d < Len(stack) /\ stack[d + 1].gen.st = "new"
                  THEN Front(Descents(stack[d]))
                  ELSE Descents(stack[d])
    /\ wstate = "suspended" => Contiguous([i \in 1..Len(emitted) |-> emitted[i].path])

\* the scan reported b before a, the consumer turned the list round, and
\* the walk went into a first
C19_Witness ==
    /\ topdown
    /\ Len(emitted) = 3
    /\ emitted[1].dirs = <<"b", "a">>
    /\ emitted[2].path = <<"a">>
    /\ emitted[3].path = <<"b">>
    /\ pruned = {}

\* the number of walk() frames whose scan holds an open handle
HandlesOpen == Cardinality({d \in 1..Len(stack) : stack[d].gen.handle})

\* C20: the handles the walk has acquired and not released are those of
\* its live scans; only the innermost walk(), while it is in its scan loop,
\* has one, so there is at most one; a walk() past its scan loop has
\* drained the scan; and a walk that is suspended at a yield, has ended or
\* was closed holds none.
C20_WalkHandles ==
    /\ opened - released = HandlesOpen
    /\ HandlesOpen <= 1
    /\ \A d \in 1..Len(stack) :
          /\ stack[d].gen.handle => d = Len(stack) /\ stack[d].pc = "scan"
          /\ stack[d].pc # "scan" => stack[d].gen.st = "done"
    /\ wstate \in {"suspended", "done", "closed", "crashed"} => opened = released

\* a walk closed by its consumer after two scans that each held a handle
C20_Witness ==
    /\ wstate = "closed"
    /\ opened = 2
    /\ released = 2
    /\ Len(emitted) >= 1

====
